---- MODULE Spec2Model ----
(***************************************************************************)
(* Model of src/app.py: a Streamlit page that removes an image background, *)
(* composites the foreground over a solid colour, optionally crops it and  *)
(* offers the result as a PNG download.                                    *)
(*                                                                         *)
(* Every user interaction triggers one full, blocking run of the script    *)
(* (preceded by the widget's on_change callback when there is one), so     *)
(* each action below is one interaction followed by one whole run.         *)
(* Strings the code parses or concatenates are sequences of one-character  *)
(* strings; images are records of a mode, a size <<w, h>> and row-major    *)
(* pixel data.                                                             *)
(***************************************************************************)
EXTENDS Integers, Sequences, FiniteSets, TLC

VARIABLES
    widget_identity,           \* how the runtime identifies the picker widget
    selected_color,            \* st.session_state.selected_color
    color_picker_value,        \* st.session_state.color_picker_value
    uploaded_file,             \* the file uploader's value
    crop_aspect_ratio_option,  \* the selectbox's value
    crop_box,                  \* the crop widget's box position
    cropper_key,               \* key of the crop widget rendered by the last run
    event,                     \* the interaction that triggered the last run (for a
                               \* picker change: whether it followed a preset click)
    last_color_action,         \* value of the latest preset click / picker change
    external,                  \* what remove() and Image.new() did in the last run
    bg_color_rgb,              \* the RGB triple parsed in the last run
    output_image_nobg,         \* foreground returned by remove()
    img_ready_for_crop,        \* the composite
    final_image,               \* the image shown as "Final Result"
    byte_im,                   \* PNG data handed to the download button
    download_filename,         \* file name of the download
    warning_shown,             \* st.warning of the mask-paste fallback
    error_shown,               \* st.error / st.exception of the outer handler
    info_shown,                \* the "upload an image" prompt
    stages                     \* pipeline stages the last run entered, in order

vars == <<widget_identity, selected_color, color_picker_value, uploaded_file,
          crop_aspect_ratio_option, crop_box, cropper_key, event,
          last_color_action, external, bg_color_rgb, output_image_nobg,
          img_ready_for_crop, final_image, byte_im, download_filename,
          warning_shown, error_shown, info_shown, stages>>

----------------------------------------------------------------------------
(* Bounds of the model *)

\* crop-box positions the user can drag to: 0..MaxBox
MaxBox == 1

\* number of custom colours the picker offers
MaxCustom == 2

----------------------------------------------------------------------------
(* Strings *)

HexLower == <<"0","1","2","3","4","5","6","7","8","9","a","b","c","d","e","f">>

HexUpper == <<"0","1","2","3","4","5","6","7","8","9","A","B","C","D","E","F">>

HexChars == {HexLower[i] : i \in 1..16} \cup {HexUpper[i] : i \in 1..16}

HexVal(c) == CHOOSE v \in 0..15 : HexLower[v + 1] = c \/ HexUpper[v + 1] = c

Min(a, b) == IF a < b THEN a ELSE b

Max(a, b) == IF a < b THEN b ELSE a

\* Python's s[i:j] for 0 <= i <= j
Slice(s, i, j) == SubSeq(s, i + 1, Min(j, Len(s)))

\* Python's s.lstrip(ch)
RECURSIVE Lstrip(_, _)
Lstrip(s, ch) == IF s # <<>> /\ Head(s) = ch THEN Lstrip(Tail(s), ch) ELSE s

\* whether int(s, 16) returns (it raises ValueError otherwise)
IntHexOk(s) == s # <<>> /\ \A i \in 1..Len(s) : s[i] \in HexChars

\* int(s, 16)
RECURSIVE IntHex(_)
IntHex(s) ==
    IF s = <<>> THEN 0
    ELSE 16 * IntHex(SubSeq(s, 1, Len(s) - 1)) + HexVal(s[Len(s)])

\* the picker's "#rrggbb" of an RGB triple (lower-case digits)
ToHex2(n) == <<HexLower[(n \div 16) + 1], HexLower[(n % 16) + 1]>>

RgbToHex(rgb) == <<"#">> \o ToHex2(rgb[1]) \o ToHex2(rgb[2]) \o ToHex2(rgb[3])

White == <<"#","F","F","F","F","F","F">>

Red == <<"#","F","F","0","0","0","0">>

Blue == <<"#","0","0","0","0","F","F">>

Presets == {"Red", "Blue", "White"}

\* the colours the picker widget can report
PickerColors ==
    {RgbToHex(<<(85 * i) % 256, (170 * i) % 256, (51 * i) % 256>>) : i \in 1..MaxCustom}

CropOptions == {"No Crop", "1:1 (Square)", "35:45 (Passport)"}

----------------------------------------------------------------------------
(* Images and files *)

NoImage == [mode |-> "None", size |-> <<0, 0>>, data |-> <<>>]

NoFile == [name |-> <<>>, valid |-> FALSE, image |-> NoImage]

NoDownload == [format |-> "None", mode |-> "None", size |-> <<0, 0>>, data |-> <<>>]

NoKey == <<>>

NoRgb == <<>>

\* the uploads of the model: an RGBA PNG, an RGB JPEG and a file that is no image
Files ==
    { [name |-> <<"a", ".", "p", "n", "g">>, valid |-> TRUE,
       image |-> [mode |-> "RGBA", size |-> <<2, 1>>,
                  data |-> << <<10, 20, 30, 255>>, <<200, 100, 50, 255>> >>]],
      [name |-> <<"b", ".", "v", "1", ".", "j", "p", "g">>, valid |-> TRUE,
       image |-> [mode |-> "RGB", size |-> <<1, 2>>,
                  data |-> << <<0, 255, 0>>, <<90, 60, 30>> >>]],
      [name |-> <<"x", ".", "p", "n", "g">>, valid |-> FALSE, image |-> NoImage] }

Rgb(p) == <<p[1], p[2], p[3]>>

\* the transparencies remove() gives a pixel in the model: none, half, full
AlphaLevels == {0, 128, 255}

----------------------------------------------------------------------------
(* Session state and sidebar controls *)

NoColor == <<>>

\* variant: the default is assigned on every run, without the membership test
InitSessionStateAlways(sc) == White

\* if "selected_color" not in st.session_state: ... = "#FFFFFF"
InitSessionState(sc) == IF sc = NoColor THEN White ELSE sc

\* variant: the red preset written with five hex digits
PresetButtonsTypo(sc, clicked) ==
    IF clicked = "Red" THEN <<"#", "F", "F", "0", "0", "0">>
    ELSE IF clicked = "Blue" THEN Blue
    ELSE IF clicked = "White" THEN White
    ELSE sc

\* the three preset buttons; `clicked` is the button that returns True, if any
PresetButtons(sc, clicked) ==
    LET afterRed == IF clicked = "Red" THEN Red ELSE sc
        afterBlue == IF clicked = "Blue" THEN Blue ELSE afterRed
    IN  IF clicked = "White" THEN White ELSE afterBlue

\* variant: the picker has no on_change callback
update_color_not_registered(sc, picker_value) == sc

\* the picker's on_change callback: the new selected_color
update_color_from_picker(sc, picker_value) == picker_value

\* st.sidebar.color_picker(..., value, key="color_picker_value", ...): the
\* widget's value after the call.  A runtime that identifies the widget by
\* its parameters re-creates it, at its default `value`, when that default
\* differs from the previous run's (the previous selected_color); a runtime
\* that identifies it by its key keeps the value the widget has.
ColorPicker(value, state) ==
    IF widget_identity = "params" /\ value # selected_color THEN value ELSE state

\* variant: the picker's return value is written back to selected_color
SidebarControlsWriteBack(sc, clicked, picker) ==
    LET sc1 == PresetButtons(sc, clicked)
    IN  [selected_color |-> ColorPicker(sc1, picker),
         color_picker_value |-> ColorPicker(sc1, picker)]

\* the colour controls of the sidebar in script order: the preset buttons,
\* then the picker rendered with selected_color as its default
SidebarControls(sc, clicked, picker) ==
    LET sc1 == PresetButtons(sc, clicked)
    IN  [selected_color |-> sc1, color_picker_value |-> ColorPicker(sc1, picker)]

\* aspect_ratio of the selected crop option; <<0, 0>> is None
AspectRatio(option) ==
    IF option = "1:1 (Square)" THEN <<1, 1>>
    ELSE IF option = "35:45 (Passport)" THEN <<35, 45>>
    ELSE <<0, 0>>

----------------------------------------------------------------------------
(* Step 2: compositing *)

\* bg_color_hex = selected_color.lstrip("#")
BgColorHex(sc) == Lstrip(sc, "#")

\* whether the three int(bg_color_hex[i : i + 2], 16) return
BgColorParses(sc) ==
    \A i \in {0, 2, 4} : IntHexOk(Slice(BgColorHex(sc), i, i + 2))

\* bg_color_rgb = tuple(int(bg_color_hex[i : i + 2], 16) for i in (0, 2, 4))
BgColorRgb(sc) ==
    <<IntHex(Slice(BgColorHex(sc), 0, 2)),
      IntHex(Slice(BgColorHex(sc), 2, 4)),
      IntHex(Slice(BgColorHex(sc), 4, 6))>>

\* variant: width and height exchanged
ImageNewSwapped(size, color) ==
    [mode |-> "RGB", size |-> <<size[2], size[1]>>,
     data |-> [i \in 1..(size[1] * size[2]) |-> color]]

\* Image.new("RGB", size, color)
ImageNew(size, color) ==
    [mode |-> "RGB", size |-> size, data |-> [i \in 1..(size[1] * size[2]) |-> color]]

\* the modes paste() accepts for a mask; any other raises ValueError
MaskModes == {"1", "L", "LA", "RGBA", "RGBa"}

Alpha(p, mode) ==
    IF mode \in {"RGBA", "RGBa"} THEN p[4] ELSE IF mode = "LA" THEN p[2] ELSE p[1]

\* variant: the mask weights the background instead of the foreground
Blend8Swapped(mask, out, in) ==
    LET tmp == out * mask + in * (255 - mask) + 128
    IN  ((tmp \div 256) + tmp) \div 256

\* one band of a masked paste: (in * mask + out * (255 - mask)) / 255, rounded
Blend8(mask, out, in) ==
    LET tmp == in * mask + out * (255 - mask) + 128
    IN  ((tmp \div 256) + tmp) \div 256

\* pixel of `src` lying over pixel i of `dst` when pasted at (0, 0), or 0 if none
SrcIndex(dst, src, i) ==
    LET x == (i - 1) % dst.size[1]
        y == (i - 1) \div dst.size[1]
    IN  IF x < src.size[1] /\ y < src.size[2] THEN y * src.size[1] + x + 1 ELSE 0

\* background.paste(src, (0, 0), mask), for a mask of an accepted mode
PasteMasked(dst, src, mask) ==
    [dst EXCEPT !.data =
        [i \in 1..Len(dst.data) |->
            LET j == SrcIndex(dst, src, i)
            IN  IF j = 0 THEN dst.data[i]
                ELSE LET a == Alpha(mask.data[j], mask.mode)
                     IN  <<Blend8(a, dst.data[i][1], src.data[j][1]),
                           Blend8(a, dst.data[i][2], src.data[j][2]),
                           Blend8(a, dst.data[i][3], src.data[j][3])>>]]

\* background.paste(src, (0, 0))
PasteDirect(dst, src) ==
    [dst EXCEPT !.data =
        [i \in 1..Len(dst.data) |->
            LET j == SrcIndex(dst, src, i)
            IN  IF j = 0 THEN dst.data[i] ELSE Rgb(src.data[j])]]

\* variant: the handler warns but does not paste again
PasteWithFallbackNoPaste(background, fg) ==
    IF fg.mode \in MaskModes
    THEN [image |-> PasteMasked(background, fg, fg), warning |-> FALSE]
    ELSE [image |-> background, warning |-> TRUE]

\* the inner try/except: masked paste, or on ValueError a warning and a direct paste
PasteWithFallback(background, fg) ==
    IF fg.mode \in MaskModes
    THEN [image |-> PasteMasked(background, fg, fg), warning |-> FALSE]
    ELSE [image |-> PasteDirect(background, fg), warning |-> TRUE]

----------------------------------------------------------------------------
(* Column 1: crop widget or preview *)

\* variant: the key also carries the colour held in session state
CropperKeyWithColor(name, option) ==
    <<"cropper_">> \o name \o <<"_", option, "_">> \o selected_color

\* key=f"cropper_{uploaded_file.name}_{crop_aspect_ratio_option}"
CropperKey(name, option) == <<"cropper_">> \o name \o <<"_", option>>

\* the region the crop widget selects: the largest box of the aspect ratio,
\* moved `box` pixels from the origin as far as the image allows
CropRect(size, aspect, box) ==
    LET wh == IF size[1] * aspect[2] >= size[2] * aspect[1]
              THEN <<Max(1, (size[2] * aspect[1]) \div aspect[2]), size[2]>>
              ELSE <<size[1], Max(1, (size[1] * aspect[2]) \div aspect[1])>>
    IN  [left |-> Min(box, size[1] - wh[1]), top |-> Min(box, size[2] - wh[2]),
         width |-> wh[1], height |-> wh[2]]

\* st_cropper(img, realtime_update=True, aspect_ratio=aspect, ...): the cropped image
st_cropper(img, aspect, box) ==
    LET r == CropRect(img.size, aspect, box)
    IN  [mode |-> img.mode, size |-> <<r.width, r.height>>,
         data |-> [i \in 1..(r.width * r.height) |->
                    img.data[(r.top + ((i - 1) \div r.width)) * img.size[1]
                             + r.left + ((i - 1) % r.width) + 1]]]

\* variant: the widget's result is not assigned to final_image
ColumnOneNoAssign(option, img, name, box, prevkey) ==
    IF option # "No Crop"
    THEN LET key == CropperKey(name, option)
             b == IF key = prevkey THEN box ELSE 0
         IN  [final_image |-> img, cropper_key |-> key, crop_box |-> b,
              stage |-> <<"crop">>]
    ELSE [final_image |-> img, cropper_key |-> NoKey, crop_box |-> 0,
          stage |-> <<>>]

\* with col1: the crop widget when a ratio is selected, else the preview.
\* The widget keeps its box while it is rendered under the same key in
\* consecutive runs and starts at its default box otherwise.
ColumnOne(option, img, name, box, prevkey) ==
    IF option # "No Crop"
    THEN LET key == CropperKey(name, option)
             b == IF key = prevkey THEN box ELSE 0
         IN  [final_image |-> st_cropper(img, AspectRatio(option), b),
              cropper_key |-> key, crop_box |-> b, stage |-> <<"crop">>]
    ELSE [final_image |-> img, cropper_key |-> NoKey, crop_box |-> 0,
          stage |-> <<>>]

----------------------------------------------------------------------------
(* Column 2: export *)

\* image.convert("RGB")
ConvertRgb(img) ==
    [mode |-> "RGB", size |-> img.size,
     data |-> [i \in 1..Len(img.data) |->
                 IF img.mode \in {"L", "LA", "1"}
                 THEN <<img.data[i][1], img.data[i][1], img.data[i][1]>>
                 ELSE Rgb(img.data[i])]]

\* image.save(buf, format="PNG"); buf.getvalue()
PngSave(img) == [format |-> "PNG", mode |-> img.mode, size |-> img.size, data |-> img.data]

\* lines 130-140: final_image after the optional conversion, and byte_im
FinalizeForExport(img) ==
    IF img.mode = "RGBA" THEN [final_image |-> img, byte_im |-> PngSave(img)]
    ELSE LET rgb == IF img.mode # "RGB" THEN ConvertRgb(img) ELSE img
         IN  [final_image |-> rgb, byte_im |-> PngSave(rgb)]

\* index of the last "." of a name, 0 if it has none
RECURSIVE LastDot(_, _)
LastDot(name, i) ==
    IF i = 0 THEN 0 ELSE IF name[i] = "." THEN i ELSE LastDot(name, i - 1)

\* f"{uploaded_file.name.rsplit('.', 1)[0]}_processed.png"
DownloadFilename(name) ==
    LET d == LastDot(name, Len(name))
    IN  (IF d = 0 THEN name ELSE SubSeq(name, 1, d - 1)) \o <<"_processed.png">>

----------------------------------------------------------------------------
(* External collaborators of one run *)

\* remove(input_image): an RGBA image of the input's size and colours with
\* any transparency per pixel, or (for the fallback path) one without a
\* transparency channel
RemoveOutputs(im) ==
    LET n == Len(im.data)
    IN  {[mode |-> "RGBA", size |-> im.size,
          data |-> [i \in 1..n |-> Rgb(im.data[i]) \o <<a[i]>>]] :
            a \in [1..n -> AlphaLevels]}
        \cup {[mode |-> "RGB", size |-> im.size,
               data |-> [i \in 1..n |-> Rgb(im.data[i])]]}

\* the outputs of remove() combined with a failing Image.new(): the run ends
\* in the handler whatever the transparency, so one mask stands for all
OpaqueOutputs(im) ==
    {img \in RemoveOutputs(im) :
        img.mode = "RGBA" /\ \A i \in 1..Len(img.data) : img.data[i][4] = 255}

NoExternal == [remove |-> "not called", image |-> NoImage, new_ok |-> TRUE]

\* what remove() and Image.new() can do in a run on `file`: remove() raises
\* or returns an image; Image.new() raises (out of memory) or returns
ExternalOutcomes(file) ==
    IF file = NoFile \/ ~file.valid THEN {NoExternal}
    ELSE {[remove |-> "raises", image |-> NoImage, new_ok |-> TRUE]}
         \cup {[remove |-> "returns", image |-> img, new_ok |-> TRUE] :
                 img \in RemoveOutputs(file.image)}
         \cup {[remove |-> "returns", image |-> img, new_ok |-> FALSE] :
                 img \in OpaqueOutputs(file.image)}

----------------------------------------------------------------------------
(* The main area of the script *)

\* what a run has produced before its first statement of the main area
Blank ==
    [bg_color_rgb |-> NoRgb, output_image_nobg |-> NoImage,
     img_ready_for_crop |-> NoImage, final_image |-> NoImage,
     byte_im |-> NoDownload, download_filename |-> <<>>,
     warning |-> FALSE, error |-> FALSE, info |-> FALSE,
     stages |-> <<>>, cropper_key |-> NoKey, crop_box |-> 0]

\* variant: the handler swallows the exception
ExceptHandlerSilent(run) == run

\* except Exception as e: st.error(...); st.exception(e); the run ends
ExceptHandler(run) == [run EXCEPT !.error = TRUE]

\* with col2: show the final image and offer the download
ColumnTwo(run, name) ==
    IF run.final_image # NoImage
    THEN LET x == FinalizeForExport(run.final_image)
         IN  [run EXCEPT !.final_image = x.final_image, !.byte_im = x.byte_im,
                         !.download_filename = DownloadFilename(name),
                         !.stages = Append(@, "export")]
    ELSE run

\* Step 2 and the columns, once remove() has returned
Composite(run, file, sc, option, box, prevkey, ext) ==
    IF ~BgColorParses(sc) THEN ExceptHandler(run)
    ELSE IF ~ext.new_ok THEN ExceptHandler([run EXCEPT !.bg_color_rgb = BgColorRgb(sc)])
    ELSE LET rgb == BgColorRgb(sc)
             bg == PasteWithFallback(ImageNew(run.output_image_nobg.size, rgb),
                                     run.output_image_nobg)
             c1 == ColumnOne(option, bg.image, file.name, box, prevkey)
         IN  ColumnTwo([run EXCEPT !.bg_color_rgb = rgb,
                                   !.img_ready_for_crop = bg.image,
                                   !.warning = bg.warning,
                                   !.final_image = c1.final_image,
                                   !.cropper_key = c1.cropper_key,
                                   !.crop_box = c1.crop_box,
                                   !.stages = @ \o c1.stage],
                       file.name)

\* if uploaded_file is not None: try: ... except ...: ... else: st.info(...)
MainArea(file, sc, option, box, prevkey, ext) ==
    IF file = NoFile THEN [Blank EXCEPT !.info = TRUE]
    ELSE IF ~file.valid THEN ExceptHandler(Blank)
    ELSE IF ext.remove = "raises"
         THEN ExceptHandler([Blank EXCEPT !.stages = <<"remove">>])
    ELSE Composite([Blank EXCEPT !.output_image_nobg = ext.image,
                                 !.stages = <<"remove", "composite">>],
                   file, sc, option, box, prevkey, ext)

----------------------------------------------------------------------------
(* Interactions *)

PresetValue(p) == IF p = "Red" THEN Red ELSE IF p = "Blue" THEN Blue ELSE White

\* one run of the script: session-state initialisation, the sidebar widgets,
\* the main area
Run(ev, clicked, sc, picker, file, option, box) ==
    \E ext \in ExternalOutcomes(file) :
      \E side \in {SidebarControls(InitSessionState(sc), clicked, picker)} :
        \E r \in {MainArea(file, side.selected_color, option, box, cropper_key, ext)} :
            /\ selected_color' = side.selected_color
            /\ color_picker_value' = side.color_picker_value
            /\ uploaded_file' = file
            /\ crop_aspect_ratio_option' = option
            /\ crop_box' = r.crop_box
            /\ cropper_key' = r.cropper_key
            /\ event' = [kind |-> ev.kind, color |-> ev.color,
                          after_preset |-> ev.kind = "picker" /\ event.kind = "preset"]
            /\ last_color_action' =
                   IF ev.kind \in {"preset", "picker"} THEN ev.color
                   ELSE last_color_action
            /\ external' = ext
            /\ bg_color_rgb' = r.bg_color_rgb
            /\ output_image_nobg' = r.output_image_nobg
            /\ img_ready_for_crop' = r.img_ready_for_crop
            /\ final_image' = r.final_image
            /\ byte_im' = r.byte_im
            /\ download_filename' = r.download_filename
            /\ warning_shown' = r.warning
            /\ error_shown' = r.error
            /\ info_shown' = r.info
            /\ stages' = r.stages
            /\ UNCHANGED widget_identity

\* the user clicks a preset button
ClickPreset ==
    \E p \in Presets :
        Run([kind |-> "preset", color |-> PresetValue(p)], p, selected_color,
            color_picker_value, uploaded_file, crop_aspect_ratio_option, crop_box)

\* the user picks a colour: the widget takes it, on_change runs, then the script
PickColor ==
    \E c \in PickerColors \ {color_picker_value} :
        Run([kind |-> "picker", color |-> c], "",
            update_color_from_picker(selected_color, c), c,
            uploaded_file, crop_aspect_ratio_option, crop_box)

\* the user uploads a file or removes the upload
Upload ==
    \E f \in (Files \cup {NoFile}) \ {uploaded_file} :
        Run([kind |-> "upload", color |-> NoColor], "", selected_color,
            color_picker_value, f, crop_aspect_ratio_option, crop_box)

\* the user selects another crop option
SelectCrop ==
    \E o \in CropOptions \ {crop_aspect_ratio_option} :
        Run([kind |-> "crop_mode", color |-> NoColor], "", selected_color,
            color_picker_value, uploaded_file, o, crop_box)

\* the user drags the box of the crop widget on the page
DragBox ==
    /\ cropper_key # NoKey
    /\ \E b \in (0..MaxBox) \ {crop_box} :
        Run([kind |-> "drag", color |-> NoColor], "", selected_color,
            color_picker_value, uploaded_file, crop_aspect_ratio_option, b)

\* the state after the first run of a new session: nothing uploaded
Init ==
    /\ widget_identity \in {"key", "params"}
    /\ selected_color = InitSessionState(NoColor)
    /\ color_picker_value = InitSessionState(NoColor)
    /\ uploaded_file = NoFile
    /\ crop_aspect_ratio_option = "No Crop"
    /\ crop_box = 0
    /\ cropper_key = NoKey
    /\ event = [kind |-> "load", color |-> NoColor, after_preset |-> FALSE]
    /\ last_color_action = NoColor
    /\ external = NoExternal
    /\ bg_color_rgb = NoRgb
    /\ output_image_nobg = NoImage
    /\ img_ready_for_crop = NoImage
    /\ final_image = NoImage
    /\ byte_im = NoDownload
    /\ download_filename = <<>>
    /\ warning_shown = FALSE
    /\ error_shown = FALSE
    /\ info_shown = TRUE
    /\ stages = <<>>

Next == ClickPreset \/ PickColor \/ Upload \/ SelectCrop \/ DragBox

Spec == Init /\ [][Next]_vars

----------------------------------------------------------------------------
(* Properties *)

Composited == img_ready_for_crop # NoImage

ColorActions == {"preset", "picker"}

\* C1: a run triggered by a preset click leaves selected_color equal to that
\* preset's value (#FF0000, #0000FF or #FFFFFF) whatever the picker held
\* before, and the run composites with exactly that colour.
C1_PresetSetsSelectedColor ==
    event.kind = "preset" =>
        /\ selected_color \in {Red, Blue, White}
        /\ selected_color = event.color
        /\ Composited =>
              bg_color_rgb = (IF event.color = Red THEN <<255, 0, 0>>
                              ELSE IF event.color = Blue THEN <<0, 0, 255>>
                              ELSE <<255, 255, 255>>)

\* C1 witness: the red preset was clicked while the picker still holds a
\* custom colour, and the run composited with red.
C1_Witness ==
    /\ event.kind = "preset"
    /\ color_picker_value \in PickerColors
    /\ selected_color = Red
    /\ bg_color_rgb = <<255, 0, 0>>
    /\ Composited

\* C2: in the run triggered by a picker change the callback has already
\* copied the picked value into selected_color, so the run composites with
\* the picked colour, also when the previous action was a preset click.
C2_PickerChangeUpdatesSlot ==
    event.kind = "picker" =>
        /\ selected_color = event.color
        /\ color_picker_value = event.color
        /\ Composited => RgbToHex(bg_color_rgb) = event.color

\* C2 witness: a picker change right after a preset click, composited with
\* the picked colour.
C2_Witness ==
    /\ event.kind = "picker"
    /\ event.after_preset
    /\ selected_color \in PickerColors
    /\ Composited
    /\ RgbToHex(bg_color_rgb) = selected_color

\* C3: in every state selected_color is the value of the latest colour
\* action of the session, white if there was none, and a run that composites
\* does so with that colour; runs triggered by other actions keep it.
C3_ColorFollowsLatestAction ==
    LET latest == IF last_color_action = NoColor THEN White ELSE last_color_action
    IN  /\ selected_color = latest
        /\ Composited => bg_color_rgb = BgColorRgb(latest)

\* C3 witness: a run triggered by an upload, a crop-mode change or a drag
\* composites with the custom colour picked earlier.
C3_Witness ==
    /\ event.kind \in {"upload", "crop_mode", "drag"}
    /\ last_color_action \in PickerColors
    /\ Composited
    /\ RgbToHex(bg_color_rgb) = last_color_action

\* C4: for a fixed file name and crop option the crop widget's key does not
\* change, and a colour action in a run that renders the widget again keeps
\* both the key and the position of the crop box.
C4_CropKeyIgnoresColor ==
    [][ /\ ( /\ cropper_key # NoKey
             /\ cropper_key' # NoKey
             /\ uploaded_file'.name = uploaded_file.name
             /\ crop_aspect_ratio_option' = crop_aspect_ratio_option )
           => cropper_key' = cropper_key
        /\ ( /\ event'.kind \in ColorActions
             /\ cropper_key # NoKey
             /\ ~error_shown' )
           => (cropper_key' = cropper_key /\ crop_box' = crop_box)
      ]_vars

\* C4 witness: a colour action ran with the crop widget on the page and the
\* box is still where the user had dragged it.
C4_Witness ==
    /\ event.kind \in ColorActions
    /\ cropper_key # NoKey
    /\ crop_box = 1
    /\ selected_color # White

\* a run in which decoding, remove() or Image.new() raised
Fault ==
    /\ uploaded_file # NoFile
    /\ \/ ~uploaded_file.valid
       \/ external.remove = "raises"
       \/ ~external.new_ok

\* the stages of a run without an exception
FullStages ==
    <<"remove", "composite">>
    \o (IF crop_aspect_ratio_option # "No Crop" THEN <<"crop">> ELSE <<>>)
    \o <<"export">>

\* C5: a run in which decoding, background removal or compositing raises
\* shows the error, stops at the failing stage, renders no final image and
\* no crop widget and offers no download; the error is shown only then; and
\* the next run starts from the beginning and, without a fault, completes.
C5_ErrorHaltsPass ==
    /\ [] ( /\ Fault =>
                /\ error_shown
                /\ byte_im = NoDownload
                /\ download_filename = <<>>
                /\ final_image = NoImage
                /\ cropper_key = NoKey
                /\ stages = (IF ~uploaded_file.valid THEN <<>>
                             ELSE IF external.remove = "raises" THEN <<"remove">>
                             ELSE <<"remove", "composite">>)
            /\ error_shown => Fault )
    /\ [][ (error_shown /\ uploaded_file' # NoFile /\ ~Fault')
             => (~error_shown' /\ stages' = FullStages' /\ byte_im' # NoDownload)
         ]_vars

\* C5 witness: remove() raised; the run stopped there, the error is shown
\* and there is no download.
C5_Witness ==
    /\ error_shown
    /\ external.remove = "raises"
    /\ stages = <<"remove">>
    /\ byte_im = NoDownload

\* the masked paste of the last run raised ValueError
MaskPasteFailed ==
    /\ external.remove = "returns"
    /\ external.new_ok
    /\ external.image.mode \notin MaskModes

\* C6: when the masked paste fails the run warns, pastes the foreground
\* unmasked at the origin over the colour-filled background, and goes on
\* through the crop or preview to the export: a download is offered and no
\* error is shown; the warning is shown in no other run.
C6_FallbackRecovers ==
    /\ MaskPasteFailed =>
        /\ warning_shown
        /\ ~error_shown
        /\ img_ready_for_crop.mode = "RGB"
        /\ \A i \in 1..Len(output_image_nobg.data) :
               img_ready_for_crop.data[i] = Rgb(output_image_nobg.data[i])
        /\ final_image # NoImage
        /\ byte_im.format = "PNG"
        /\ stages = FullStages
    /\ warning_shown => MaskPasteFailed

\* C6 witness: a run took the fallback path and a download is offered.
C6_Witness ==
    /\ warning_shown
    /\ selected_color # White
    /\ byte_im.format = "PNG"

\* C7: the composite has the width and height of the foreground, holds one
\* pixel per position, on the masked and on the fallback path, and the
\* foreground is still the image remove() returned.
C7_CompositeKeepsDimensions ==
    Composited =>
        /\ img_ready_for_crop.size = output_image_nobg.size
        /\ Len(img_ready_for_crop.data)
             = output_image_nobg.size[1] * output_image_nobg.size[2]
        /\ output_image_nobg = external.image
        /\ Len(output_image_nobg.data) = Len(img_ready_for_crop.data)

\* C7 witness: a composite of the 1 x 2 upload made by the masked paste.
C7_Witness ==
    /\ Composited
    /\ ~warning_shown
    /\ img_ready_for_crop.size = <<1, 2>>
    /\ output_image_nobg.mode = "RGBA"

ValidHex(c) ==
    /\ Len(c) = 7
    /\ c[1] = "#"
    /\ \A i \in 2..7 : c[i] \in HexChars

\* C8: selected_color is always "#" followed by six hex digits, and the
\* triple parsed from it has three components in 0..255.
C8_SelectedColorValidHex ==
    /\ ValidHex(selected_color)
    /\ bg_color_rgb # NoRgb =>
        /\ Len(bg_color_rgb) = 3
        /\ \A k \in 1..3 : bg_color_rgb[k] \in 0..255
    /\ Composited => bg_color_rgb # NoRgb

\* C8 witness: a lower-case colour from the picker was parsed.
C8_Witness ==
    /\ selected_color \in PickerColors
    /\ bg_color_rgb # NoRgb
    /\ bg_color_rgb = BgColorRgb(selected_color)

\* C9: on the masked path the composite is an RGB image in which every
\* fully transparent foreground pixel has exactly the selected colour and
\* every fully opaque one exactly the foreground's RGB value; without a crop
\* the exported PNG is that opaque image.
C9_MaskedPastePixels ==
    (Composited /\ ~warning_shown) =>
        /\ img_ready_for_crop.mode = "RGB"
        /\ \A i \in 1..Len(output_image_nobg.data) :
            /\ output_image_nobg.data[i][4] = 0
                 => img_ready_for_crop.data[i] = bg_color_rgb
            /\ output_image_nobg.data[i][4] = 255
                 => img_ready_for_crop.data[i] = Rgb(output_image_nobg.data[i])
        /\ crop_aspect_ratio_option = "No Crop" =>
            /\ byte_im.mode = "RGB"
            /\ byte_im.size = output_image_nobg.size
            /\ byte_im.data = img_ready_for_crop.data

\* C9 witness: red preset, no crop, a foreground with a fully transparent
\* and a fully opaque pixel: the export is red at the first and keeps the
\* foreground's colour at the second.
C9_Witness ==
    /\ selected_color = Red
    /\ crop_aspect_ratio_option = "No Crop"
    /\ output_image_nobg.mode = "RGBA"
    /\ output_image_nobg.data[1][4] = 0
    /\ output_image_nobg.data[2][4] = 255
    /\ byte_im.mode = "RGB"
    /\ byte_im.data[1] = <<255, 0, 0>>
    /\ byte_im.data[2] = Rgb(output_image_nobg.data[2])
    /\ byte_im.data[2] # <<255, 0, 0>>

\* C10: a run with an upload and no exception goes through remove,
\* composite, the crop widget exactly when a ratio is selected, and export,
\* once each in that order; the final image is the composite itself without
\* a crop and the widget's result otherwise, and it is what is exported; a
\* download is offered only with a final image; without an upload nothing
\* of this runs.
C10_PipelineStages ==
    /\ (uploaded_file # NoFile /\ ~error_shown) =>
        /\ stages = FullStages
        /\ crop_aspect_ratio_option = "No Crop" =>
            (final_image = img_ready_for_crop /\ cropper_key = NoKey)
        /\ crop_aspect_ratio_option # "No Crop" =>
            /\ cropper_key # NoKey
            /\ final_image = st_cropper(img_ready_for_crop,
                                        AspectRatio(crop_aspect_ratio_option),
                                        crop_box)
        /\ byte_im = PngSave(final_image)
    /\ byte_im # NoDownload => final_image # NoImage
    /\ uploaded_file = NoFile =>
        /\ stages = <<>>
        /\ info_shown
        /\ ~error_shown
        /\ final_image = NoImage
        /\ byte_im = NoDownload

\* C10 witness: a crop ratio is selected and the exported final image is the
\* widget's crop, smaller than the composite.
C10_Witness ==
    /\ crop_aspect_ratio_option = "1:1 (Square)"
    /\ stages = <<"remove", "composite", "crop", "export">>
    /\ final_image.size = <<1, 1>>
    /\ img_ready_for_crop.size = <<2, 1>>
    /\ crop_box = 1
    /\ byte_im.data = final_image.data

====
